---- MODULE Spec2Model ----
(***************************************************************************)
(* A model of symbol/branch.go: the BrBuilder registry of one branch, its   *)
(* sync workflow (AddBuild), its history and index parsers (ParseBuilds,    *)
(* ParseSymbols) and its snapshot (Persist, Load, Delete).                  *)
(*                                                                          *)
(* Go strings are TLA+ strings; s[i] is written Ch(s, i).  f @@ <<>> is the   *)
(* function f, held as the table of its values.                             *)
(***************************************************************************)
EXTENDS Integers, Sequences, FiniteSets, TLC

\* ------------------------------------------------------------------------
\* The string functions of the Go library that the code calls.
\* ------------------------------------------------------------------------

Ch(s, i) == SubSeq(s, i, i)

\* s[i:] as Go slices it (i counts from 1 here).
From(s, i) == SubSeq(s, i, Len(s))

\* Whether character c occurs in the cutset.
InCut(c, cut) == \E k \in 1..Len(cut) : Ch(cut, k) = c

\* The first position from lo up, and the last from hi down, whose character is
\* not in the cutset.
RECURSIVE SkipUp(_, _, _, _)
SkipUp(s, cut, lo, hi) ==
    IF lo > hi \/ ~InCut(Ch(s, lo), cut) THEN lo ELSE SkipUp(s, cut, lo + 1, hi)
RECURSIVE SkipDown(_, _, _, _)
SkipDown(s, cut, lo, hi) ==
    IF lo > hi \/ ~InCut(Ch(s, hi), cut) THEN hi ELSE SkipDown(s, cut, lo, hi - 1)

\* strings.Trim(s, cut): s without its leading and trailing characters of cut.
Trim(s, cut) ==
    LET lo == SkipUp(s, cut, 1, Len(s))
    IN  SubSeq(s, lo, SkipDown(s, cut, lo, Len(s)))

\* The first position from i up at which sub occurs in s; 0 when there is none.
RECURSIVE IndexFrom(_, _, _)
IndexFrom(s, sub, i) ==
    IF i + Len(sub) - 1 > Len(s) THEN 0
    ELSE IF SubSeq(s, i, i + Len(sub) - 1) = sub THEN i
    ELSE IndexFrom(s, sub, i + 1)

\* strings.Index(s, sub), counted from 1; 0 when sub does not occur (Go's -1).
Index(s, sub) == IndexFrom(s, sub, 1)

\* strings.Split(s, sep) for a one-character separator: always at least one part.
RECURSIVE Split(_, _)
Split(s, sep) ==
    LET i == Index(s, sep)
    IN  IF i = 0 THEN <<s>>
        ELSE <<SubSeq(s, 1, i - 1)>> \o Split(From(s, i + 1), sep)

\* strings.ToLower on one character.
Upper == "ABCDEFGHIJKLMNOPQRSTUVWXYZ"
Lower == "abcdefghijklmnopqrstuvwxyz"
LowerOf == [c \in {Ch(Upper, k) : k \in 1..Len(Upper)} |->
              Ch(Lower, Index(Upper, c))] @@ <<>>
LowerCh(c) == IF c \in DOMAIN LowerOf THEN LowerOf[c] ELSE c

\* strings.ToLower(s).
RECURSIVE ToLower(_)
ToLower(s) == IF s = "" THEN "" ELSE LowerCh(Ch(s, 1)) \o ToLower(From(s, 2))

\* The loop `str, err := r.ReadString('\n'); if err == io.EOF { break }`: the
\* strings the loop body sees.  ReadString returns the text up to and including
\* the next '\n'; at the end of the file it returns what is left together with
\* io.EOF, and the loop leaves without looking at it.
RECURSIVE ReadLines(_)
ReadLines(file) ==
    LET i == Index(file, "\n")
    IN  IF i = 0 THEN <<>>
        ELSE <<SubSeq(file, 1, i)>> \o ReadLines(From(file, i + 1))

\* ------------------------------------------------------------------------
\* Values
\* ------------------------------------------------------------------------

\* A file on disk: absent, or present with its content.
NoFile == [exists |-> FALSE, data |-> ""]
File(s) == [exists |-> TRUE, data |-> s]

\* The names of the constants the code uses in paths and records.
unzipDir == "000Unzip"
ArchX86 == "x86"
ArchX64 == "x64"

\* b.Name(): the store name of the branch.
Name == "br"

\* config.Destination and config.BuildSource, and filepath.Join of path
\* elements, which leaves out the empty ones.
Destination == "D"
BuildSource == "S"
Join(a, b) == IF a = "" THEN b ELSE IF b = "" THEN a ELSE a \o "/" \o b

\* The build name NewBranch is called with.
BuildNames == {"bn"}

\* The callers of the registry; Main is the one the sequential specifications run.
Callers == {"main", "other"}
Main == "main"

\* The clock readings a run may take, and the two layouts the code prints them in.
Times == {"5"}
DateFmt(t) == "2017-07-0" \o t \o " 10:00:00"
CommentFmt(t) == "2017-07-0" \o t \o "_10:00:00"
\* The clock reading NewBranch stamps.
StartTime == "4"

\* A *Build, and the nil pointer.
MkBuild(id, date, branch, version, comment) ==
    [ID |-> id, Date |-> date, Branch |-> branch, Version |-> version,
     Comment |-> comment]
NoBuild == MkBuild("", "", "", "", "")

\* An empty Go map.
EmptyMap == [k \in {} |-> NoBuild]

\* m[k] = v on a Go map.
MapPut(m, k, v) == (k :> v) @@ m

VARIABLES
    builds,       \* b.builds: identifier -> Build
    BuildsCount,  \* b.Branch.BuildsCount
    UpdateDate,   \* b.Branch.UpdateDate
    LatestBuild,  \* b.Branch.LatestBuild
    BuildName,    \* b.Branch.BuildName
    StoreName,    \* b.Branch.StoreName
    StorePath,    \* b.Branch.StorePath
    BuildPath,    \* b.Branch.BuildPath
    remoteTxt,    \* <BuildPath>/latestbuild.txt on the build server
    latestTxt,    \* <StorePath>/000Admin/latestbuild.txt
    lastidTxt,    \* <StorePath>/000Admin/lastid.txt
    branchBin,    \* <StorePath>/000Admin/branch.bin
    unzip,        \* whether <StorePath>/000Unzip exists
    pc,           \* where each caller stands in AddBuild
    frame,        \* the locals of each caller's AddBuild
    ret,          \* what the operation that returned last returned and did
    pre,          \* the registry as that operation found it
    prev,         \* a summary of the operation before it
    stored        \* the versions the store tool has stored for this instance

vars == <<builds, BuildsCount, UpdateDate, LatestBuild, BuildName, StoreName,
          StorePath, BuildPath, remoteTxt, latestTxt, lastidTxt, branchBin,
          unzip, pc, frame, ret, pre, prev, stored>>

registry == <<builds, BuildsCount, UpdateDate, LatestBuild, BuildName,
              StoreName, StorePath, BuildPath>>
disk == <<remoteTxt, latestTxt, lastidTxt, branchBin, unzip>>

\* ------------------------------------------------------------------------
\* The registry's primitives and the pointer files
\* ------------------------------------------------------------------------

\* The Branch fields and the map an operation works on, as one value.
Reg == [builds |-> builds, BuildsCount |-> BuildsCount,
        UpdateDate |-> UpdateDate, LatestBuild |-> LatestBuild,
        BuildName |-> BuildName, StoreName |-> StoreName,
        StorePath |-> StorePath, BuildPath |-> BuildPath]

\* The Branch value with every field zero.
ZeroBranch == [BuildsCount |-> 0, UpdateDate |-> "", LatestBuild |-> "",
               BuildName |-> "", StoreName |-> "", StorePath |-> "",
               BuildPath |-> ""]

\* NewBranch2(branch): the registry it makes, with empty maps and the two
\* paths filled in from the names when they are empty.
NewBranch2Reg(branch) ==
    [builds |-> EmptyMap,
     BuildsCount |-> branch.BuildsCount,
     UpdateDate |-> branch.UpdateDate,
     LatestBuild |-> branch.LatestBuild,
     BuildName |-> branch.BuildName,
     StoreName |-> branch.StoreName,
     StorePath |-> IF branch.StorePath = ""
                   THEN Join(Destination, branch.StoreName)
                   ELSE branch.StorePath,
     BuildPath |-> IF branch.BuildPath = ""
                   THEN Join(Join(BuildSource, branch.BuildName), "Release")
                   ELSE branch.BuildPath]

\* NewBranch(buildName, storeName): the registry it makes.
NewBranchReg(buildName, storeName) ==
    NewBranch2Reg([ZeroBranch EXCEPT !.BuildName = buildName,
                                     !.StoreName = storeName,
                                     !.UpdateDate = DateFmt(StartTime)])

\* A getBuild that, asked for an id the map does not hold, returns a build the
\* map does hold.
getBuildSome(m, version, id) ==
    LET byVersion == {m[k] : k \in {j \in DOMAIN m : m[j].Version = version}}
    IN  IF version /= "" /\ byVersion /= {} THEN byVersion
        ELSE IF id /= "" /\ id \in DOMAIN m THEN {m[id]}
        ELSE IF id /= "" THEN {m[k] : k \in DOMAIN m}
        ELSE {}

\* getBuild(version, id): the builds it may return; the empty set is nil.  A
\* non-empty version is looked up first, by ranging over the map, then a
\* non-empty id by key.
getBuild(m, version, id) ==
    LET byVersion == {m[k] : k \in {j \in DOMAIN m : m[j].Version = version}}
    IN  IF version /= "" /\ byVersion /= {} THEN byVersion
        ELSE IF id /= "" /\ id \in DOMAIN m THEN {m[id]}
        ELSE {}

\* An addBuild that stores the build and leaves the count as it was.
addBuildUncounted(r, build) ==
    [r EXCEPT !.UpdateDate = build.Date,
              !.builds = MapPut(@, build.ID, build)]

\* addBuild(build) on a registry value.
addBuild(r, build) ==
    [r EXCEPT !.BuildsCount = @ + 1,
              !.UpdateDate = build.Date,
              !.builds = MapPut(@, build.ID, build)]

\* What ReadString('\n') returns first, its error dropped: the first line with
\* its '\n', or the whole text when it has none.
FirstLine(text) ==
    LET i == Index(text, "\n")
    IN  IF i = 0 THEN text ELSE SubSeq(text, 1, i)

\* getLatestBuild and GetLatestID on a pointer file: the trimmed first line;
\* ok is false when the file cannot be opened.
ReadPointer(f) ==
    IF f.exists THEN [ok |-> TRUE, str |-> Trim(FirstLine(f.data), " \r\n")]
    ELSE [ok |-> FALSE, str |-> ""]

\* GetLatestID(): the empty string when lastid.txt cannot be opened.
GetLatestID(f) == ReadPointer(f).str

\* ------------------------------------------------------------------------
\* ParseBuilds
\* ------------------------------------------------------------------------

IsDigits(s) == \A i \in 1..Len(s) : InCut(Ch(s, i), "0123456789")

\* The two-digit number a string of two digits spells.
DigitVal(c) == CHOOSE n \in 0..9 : Ch("0123456789", n + 1) = c
Num2(s) == 10 * DigitVal(Ch(s, 1)) + DigitVal(Ch(s, 2))

\* time.ParseInLocation("01/02/2006 15:04:05", s, time.Local) followed by
\* Format("2006-01-02 15:04:05"): ok is false when s does not parse.
ParseDate(s) ==
    LET shaped == /\ Len(s) = 19
                  /\ Ch(s, 3) = "/" /\ Ch(s, 6) = "/" /\ Ch(s, 11) = " "
                  /\ Ch(s, 14) = ":" /\ Ch(s, 17) = ":"
                  /\ IsDigits(SubSeq(s, 1, 2)) /\ IsDigits(SubSeq(s, 4, 5))
                  /\ IsDigits(SubSeq(s, 7, 10)) /\ IsDigits(SubSeq(s, 12, 13))
                  /\ IsDigits(SubSeq(s, 15, 16)) /\ IsDigits(SubSeq(s, 18, 19))
        ranged == /\ Num2(SubSeq(s, 1, 2)) \in 1..12
                  /\ Num2(SubSeq(s, 4, 5)) \in 1..28
                  /\ Num2(SubSeq(s, 12, 13)) \in 0..23
                  /\ Num2(SubSeq(s, 15, 16)) \in 0..59
                  /\ Num2(SubSeq(s, 18, 19)) \in 0..59
    IN  IF shaped /\ ranged
        THEN [ok |-> TRUE,
              str |-> SubSeq(s, 7, 10) \o "-" \o SubSeq(s, 1, 2) \o "-"
                      \o SubSeq(s, 4, 5) \o " " \o SubSeq(s, 12, 19)]
        ELSE [ok |-> FALSE, str |-> s]

\* The fields of one string the reading loop hands on: the line without its
\* line end, split at the commas.
LineFields(str) == Split(Trim(str, "\r\n"), ",")

\* The Build a line of at least 8 fields makes: the identifier is field 0, the
\* date fields 3 and 4, and branch, version and comment are fields 5, 6 and 7
\* without their quotes.
BuildOfFields(ss) ==
    LET dateStr == ss[4] \o " " \o ss[5]
        dateLoc == ParseDate(dateStr)
    IN  MkBuild(ss[1],
                IF dateLoc.ok THEN dateLoc.str ELSE dateStr,
                Trim(ss[6], "\""), Trim(ss[7], "\""), Trim(ss[8], "\""))

\* What the loop of ParseBuilds makes of one string read: nothing of a line of
\* fewer than 8 fields, a Build of any other.
LogEntry(str) ==
    LET ss == LineFields(str)
    IN  IF Len(ss) < 8 THEN [ok |-> FALSE, build |-> NoBuild]
        ELSE [ok |-> TRUE, build |-> BuildOfFields(ss)]

\* skipFn(name) against config.SymExcludeList, a sequence of names.
skipFn(name, SymExcludeList) ==
    \E k \in 1..Len(SymExcludeList) : ToLower(name) = SymExcludeList[k]

\* An archDetect that looks for the tokens in the path as it is written.
archDetectCased(sympath) ==
    LET x64Caps == <<"x64", "amd64">>
    IN  IF \E k \in 1..Len(x64Caps) : Index(sympath, x64Caps[k]) /= 0
        THEN ArchX64 ELSE ArchX86

\* archDetect(sympath).
archDetect(sympath) ==
    LET x64Caps == <<"x64", "amd64">>
        low == ToLower(sympath)
    IN  IF \E k \in 1..Len(x64Caps) : Index(low, x64Caps[k]) /= 0
        THEN ArchX64 ELSE ArchX86

\* pName of a line of at least 2 fields: the first field without its quotes,
\* split at the backslashes.
NameParts(ss) == Split(Trim(ss[1], "\""), "\\")

\* spath of a line: the second field without its quotes, cut after the
\* staging marker when it holds one.
StorePathOf(ss) ==
    LET spath == Trim(ss[2], "\"")
        at == Index(spath, unzipDir)
    IN  IF at /= 0 THEN From(spath, at + Len(unzipDir)) ELSE spath

\* What the loop of ParseSymbols makes of one string read, before it looks at
\* the exclude list and at the hashes seen: nothing of a line of fewer than 2
\* fields or whose first field is not name\hash, the parts of a Symbol of any
\* other.
IndexEntry(str) ==
    LET ss == LineFields(str)
        none == [ok |-> FALSE, Name |-> "", Hash |-> "", Path |-> "",
                 Arch |-> ""]
    IN  IF Len(ss) < 2 THEN none
        ELSE IF Len(NameParts(ss)) /= 2 THEN none
        ELSE [ok |-> TRUE, Name |-> NameParts(ss)[1], Hash |-> NameParts(ss)[2],
              Path |-> StorePathOf(ss), Arch |-> archDetect(StorePathOf(ss))]

\* ------------------------------------------------------------------------
\* Inputs
\* ------------------------------------------------------------------------

\* The versions AddBuild is called with; "" asks for the build server's latest.
Versions == {"", "2"}

\* What the build server's latestbuild.txt may hold.
RemoteFiles == {NoFile, File("1\r\n"), File("2")}

\* The identifiers the store tool assigns, in their order, and the one it
\* writes to lastid.txt after the one found there (the last one stays).
ToolIDs == <<"1", "2">>
NextID(f) ==
    IF ~f.exists THEN ToolIDs[1]
    ELSE LET at == CHOOSE k \in 1..Len(ToolIDs) : ToolIDs[k] = f.data
         IN  ToolIDs[IF at < Len(ToolIDs) THEN at + 1 ELSE at]
IDs == {ToolIDs[k] : k \in 1..Len(ToolIDs)} \cup {""}

\* The largest BuildsCount a run is followed to.
MaxBuilds == 2


\* A record of server.txt as the store tool writes it.
LogLine(id, version) ==
    id \o ",add,file,07/04/2017,14:44:14,\"" \o Name \o "\",\"" \o version
       \o "\",\"2017/7/4_14:44:14\",\r\n"

\* A record of an index file as the store tool writes it.
IndexLine(name, hash, path) ==
    "\"" \o name \o "\\" \o hash \o "\",\"" \o path \o "\"\r\n"

\* The index files and the exclude list the lookups are followed with.
SyncIndexes == {NoFile,
                File(IndexLine("a.pdb", "H1", "S:\\000Unzip\\x64\\a.pdb"))}
SyncExcludes == {<<"vc140.pdb">>}

\* The largest number of lines of the texts the parsers are followed over.
MaxLines == 2

\* A handler fails on its n-th call for some n up to MaxFail, or never (0).
MaxFail == MaxLines

\* The texts of up to n lines of a pool.
RECURSIVE TextsOf(_, _)
TextsOf(pool, n) ==
    IF n = 0 THEN {""}
    ELSE TextsOf(pool, n - 1)
         \cup {t \o l : t \in TextsOf(pool, n - 1), l \in pool}

\* The lines of the server.txt the history parser is followed over: a record as
\* the store tool writes it, one of exactly 8 fields whose date does not parse,
\* and one of 7 fields; and what may follow the last line end.
LogPool == {LogLine("1", "1"),
            "2,add,file,7/4,x,\"b2\",\"2\",\"c2\"\n",
            "3,add,file,07/04/2017,14:44:14,\"b3\",\"3\"\n"}
LogTails == {"", "4,add,file,07/04/2017,14:44:14,\"b4\",\"4\",\"c4\","}
ParseLogs == {NoFile}
             \cup {File(t \o u) : t \in TextsOf(LogPool, MaxLines), u \in LogTails}


\* The lines of the index files the symbol parser is followed over: two names
\* under one hash, the second in capitals, a third name under a hash of its
\* own, and a line without a hash.
IndexPool == {IndexLine("a.pdb", "H1", "S:\\000Unzip\\x64\\a.pdb"),
              IndexLine("B.PDB", "H1", "S:\\B.PDB"),
              IndexLine("b.pdb", "H2", "S:\\b.pdb"),
              "\"c.pdb\",\"S:\\c.pdb\"\r\n"}
ParseIndexes == {NoFile} \cup {File(t) : t \in TextsOf(IndexPool, MaxLines)}

\* The lines of the index files the architecture is followed over: paths
\* with x64 after the staging marker, X64 in capitals, Amd64, x86, no token,
\* and x64 before the staging marker only; and the files of one or two of
\* them.
ArchPool == {IndexLine("a.pdb", "H1", "S:\\000Unzip\\x64\\a.pdb"),
             IndexLine("b.pdb", "H2", "S:\\X64\\b.pdb"),
             IndexLine("c.pdb", "H3", "S:\\000Unzip\\Amd64\\c.pdb"),
             IndexLine("d.pdb", "H4", "S:\\000Unzip\\x86\\d.pdb"),
             IndexLine("e.pdb", "H5", "S:\\e.pdb"),
             IndexLine("f.pdb", "H6", "S:\\x64\\000Unzip\\f.pdb")}
ArchIndexes == {File(l) : l \in ArchPool}
               \cup {File(l \o m) : l \in ArchPool, m \in ArchPool}

\* config.SymExcludeList as the symbol parser is followed with it: a name in
\* small letters, and the same name with a capital.
ParseExcludes == {<<"b.pdb">>, <<"B.pdb">>}

\* The Branch values NewBranch2 is called with: every field but the store
\* name empty or not, the store path empty or the path of the store.
BranchInputs ==
    {[ZeroBranch EXCEPT !.StoreName = Name, !.BuildName = bn, !.UpdateDate = d,
                        !.BuildsCount = n, !.LatestBuild = l, !.StorePath = sp] :
        bn \in {"", "bn"}, d \in {"", DateFmt(StartTime)}, n \in {0, 1},
        l \in {"", "2"}, sp \in {"", Join(Destination, Name)}}

\* The server.txt the registry is filled from before its symbols are parsed.
FilledLog == File(LogLine("1", "7"))

\* The server.txt the counting runs are followed with: none, one record, two.
CountLogs == {NoFile, FilledLog, File(LogLine("1", "7") \o LogLine("2", "8"))}

\* The texts the parsers are given, and what the pure parts of their loops
\* make of them: the strings read from each text, the entry made of each
\* string, and whether an exclude list names a name.
AllLogs == ParseLogs \cup CountLogs
AllIndexes == SyncIndexes \cup ParseIndexes \cup ArchIndexes
Texts == {f.data : f \in (AllLogs \cup AllIndexes) \ {NoFile}}
LinesOf == [text \in Texts |-> ReadLines(text)] @@ <<>>
Strings == UNION {{LinesOf[t][i] : i \in DOMAIN LinesOf[t]} : t \in Texts}
LogEntryOf == [str \in Strings |-> LogEntry(str)] @@ <<>>
IndexEntryOf == [str \in Strings |-> IndexEntry(str)] @@ <<>>
Names == {IndexEntryOf[str].Name : str \in Strings}
SkipOf == [name \in Names, list \in ParseExcludes \cup SyncExcludes |->
              skipFn(name, list)] @@ <<>>

\* ------------------------------------------------------------------------
\* The parsing loops
\* ------------------------------------------------------------------------

\* Whether the handler fails on its n-th call: failAt = 0 is a handler that
\* never fails.
HandlerFails(failAt, n) == failAt /= 0 /\ n = failAt

\* The state the parsing loops carry: the registry value, the count, what the
\* handler was given and from which line, and the error to return.
LoopStart(r) ==
    [reg |-> r, total |-> 0, out |-> <<>>, idx |-> <<>>, err |-> "nil"]

\* A loop of ParseBuilds that calls the handler before it counts and adds the
\* build.
RECURSIVE BuildsLoopHandlerFirst(_, _, _, _)
BuildsLoopHandlerFirst(lines, i, st, failAt) ==
    IF i > Len(lines) THEN st
    ELSE LET e == LogEntryOf[lines[i]]
         IN  IF ~e.ok THEN BuildsLoopHandlerFirst(lines, i + 1, st, failAt)
             ELSE LET build == e.build
                      st1 == [st EXCEPT !.out = Append(@, build),
                                        !.idx = Append(@, i)]
                      st2 == [st1 EXCEPT
                                !.total = @ + 1,
                                !.reg = [addBuild(@, build) EXCEPT
                                           !.LatestBuild = build.Version]]
                  IN  IF HandlerFails(failAt, Len(st1.out))
                      THEN [st1 EXCEPT !.err = "handler"]
                      ELSE BuildsLoopHandlerFirst(lines, i + 1, st2, failAt)

\* The loop of ParseBuilds over the strings read from server.txt, from the
\* i-th on.
RECURSIVE BuildsLoop(_, _, _, _)
BuildsLoop(lines, i, st, failAt) ==
    IF i > Len(lines) THEN st
    ELSE LET e == LogEntryOf[lines[i]]
         IN  IF ~e.ok THEN BuildsLoop(lines, i + 1, st, failAt)
             ELSE LET build == e.build
                      st1 == [st EXCEPT
                                !.total = @ + 1,
                                !.reg = [addBuild(@, build) EXCEPT
                                           !.LatestBuild = build.Version],
                                !.out = Append(@, build),
                                !.idx = Append(@, i)]
                  IN  IF HandlerFails(failAt, Len(st1.out))
                      THEN [st1 EXCEPT !.err = "handler"]
                      ELSE BuildsLoop(lines, i + 1, st1, failAt)

\* The orders a `range` over the map may take.
RangeOrders(m) ==
    {o \in [1..Cardinality(DOMAIN m) -> DOMAIN m] :
        \A i, j \in DOMAIN o : i /= j => o[i] /= o[j]}

\* A replay that sets BuildsCount to the number of builds the handler took.
ReplayRecounted(r, order, failAt) ==
    LET n == Len(order)
        stop == IF failAt \in 1..n THEN failAt ELSE n
        total == IF failAt \in 1..n THEN failAt - 1 ELSE n
    IN  [reg |-> [r EXCEPT !.BuildsCount = total],
         total |-> total,
         out |-> [i \in 1..stop |-> r.builds[order[i]]],
         idx |-> <<>>,
         err |-> IF failAt \in 1..n THEN "handler" ELSE "nil"]

\* The replay of a non-empty map through the handler, in the order given.
Replay(r, order, failAt) ==
    LET n == Len(order)
        stop == IF failAt \in 1..n THEN failAt ELSE n
    IN  [reg |-> r,
         total |-> IF failAt \in 1..n THEN failAt - 1 ELSE n,
         out |-> [i \in 1..stop |-> r.builds[order[i]]],
         idx |-> <<>>,
         err |-> IF failAt \in 1..n THEN "handler" ELSE "nil"]

\* A ParseBuilds that reads server.txt whatever the map holds.
ParseBuildsOnLog(r, log, order, failAt) ==
    IF ~log.exists
    THEN [LoopStart(r) EXCEPT !.err = "open"] @@ [opened |-> FALSE]
    ELSE BuildsLoop(LinesOf[log.data], 1,
                    LoopStart([r EXCEPT !.BuildsCount = 0]), failAt)
         @@ [opened |-> TRUE]

\* A ParseBuilds that clears BuildsCount before it opens server.txt.
ParseBuildsOnCleared(r, log, order, failAt) ==
    IF Cardinality(DOMAIN r.builds) /= 0
    THEN Replay(r, order, failAt) @@ [opened |-> FALSE]
    ELSE IF ~log.exists
    THEN [LoopStart([r EXCEPT !.BuildsCount = 0]) EXCEPT !.err = "open"]
         @@ [opened |-> FALSE]
    ELSE BuildsLoop(LinesOf[log.data], 1,
                    LoopStart([r EXCEPT !.BuildsCount = 0]), failAt)
         @@ [opened |-> TRUE]

\* ParseBuilds(handler) on registry value r with server.txt as given, the map
\* ranged over in the order given; opened tells whether server.txt was opened.
ParseBuildsOn(r, log, order, failAt) ==
    IF Cardinality(DOMAIN r.builds) /= 0
    THEN Replay(r, order, failAt) @@ [opened |-> FALSE]
    ELSE IF ~log.exists
    THEN [LoopStart(r) EXCEPT !.err = "open"] @@ [opened |-> FALSE]
    ELSE BuildsLoop(LinesOf[log.data], 1,
                    LoopStart([r EXCEPT !.BuildsCount = 0]), failAt)
         @@ [opened |-> TRUE]

\* A test of the hash that never finds it.
seenNever(hash, unqMap) == FALSE

\* if _, ok := unqMap[pName[1]]; ok { continue }
seen(hash, unqMap) == hash \in unqMap

\* An end of the loop body that raises the count before the handler is called.
DeliverCounted(st, sym, i, failAt) ==
    LET st1 == [st EXCEPT !.out = Append(@, sym), !.idx = Append(@, i),
                          !.total = @ + 1]
    IN  IF HandlerFails(failAt, Len(st1.out))
        THEN [st1 EXCEPT !.err = "handler"]
        ELSE st1

\* The end of the loop body of ParseSymbols: the handler is given the symbol
\* made of line i, and when it fails the loop returns; the count is raised
\* after it.
Deliver(st, sym, i, failAt) ==
    LET st1 == [st EXCEPT !.out = Append(@, sym), !.idx = Append(@, i)]
    IN  IF HandlerFails(failAt, Len(st1.out))
        THEN [st1 EXCEPT !.err = "handler"]
        ELSE [st1 EXCEPT !.total = @ + 1]

\* The loop of ParseSymbols over the strings read from the index file, from
\* the i-th on; unqMap holds the hashes of the symbols the handler accepted.
RECURSIVE SymbolsLoop(_, _, _, _, _, _, _)
SymbolsLoop(lines, i, st, unqMap, version, SymExcludeList, failAt) ==
    IF i > Len(lines) THEN st
    ELSE LET e == IndexEntryOf[lines[i]]
             next == SymbolsLoop(lines, i + 1, st, unqMap, version,
                                 SymExcludeList, failAt)
         IN  IF ~e.ok THEN next
             ELSE IF SkipOf[e.Name, SymExcludeList] THEN next
             ELSE IF seen(e.Hash, unqMap) THEN next
             ELSE LET sym == [Name |-> e.Name, Hash |-> e.Hash,
                              Path |-> e.Path, Arch |-> e.Arch,
                              Version |-> version]
                      st1 == Deliver(st, sym, i, failAt)
                  IN  IF st1.err /= "nil" THEN st1
                      ELSE SymbolsLoop(lines, i + 1, st1,
                                       unqMap \cup {sym.Hash}, version,
                                       SymExcludeList, failAt)

\* ParseSymbols(buildID, handler) on registry value r, with the index file
\* 000Admin/<buildID> and config.SymExcludeList as given.
ParseSymbolsOn(r, buildID, index, SymExcludeList, failAt) ==
    LET found == getBuild(r.builds, "", buildID)
    IN  IF found = {}
        THEN [LoopStart(r) EXCEPT !.err = "ErrBuildNotExist"]
             @@ [opened |-> FALSE]
        ELSE IF ~index.exists
        THEN [LoopStart(r) EXCEPT !.err = "open"] @@ [opened |-> FALSE]
        ELSE SymbolsLoop(LinesOf[index.data], 1, LoopStart(r), {},
                         (CHOOSE bd \in found : TRUE).Version,
                         SymExcludeList, failAt)
             @@ [opened |-> TRUE]

\* ------------------------------------------------------------------------
\* Bookkeeping of calls
\* ------------------------------------------------------------------------

\* The locals of a caller that is not inside AddBuild.
NoFrame == [buildVerion |-> "", latest |-> "", local |-> "", build |-> NoBuild,
            mkdir |-> FALSE, tool |-> "no", again |-> FALSE, remote |-> NoFile]

\* What an operation returned and did.  err is "nil" on success; mkdir and
\* tool tell whether AddBuild created the staging directory and how the store
\* tool ended ("no": not run), again whether the tool stored a version it had
\* stored before; latest, local and remote are the version it
\* resolved and the two pointers as it read them; there tells whether the file
\* of a parser was on disk, and file, excl and fail are the inputs of a parser
\* that opened its file.
NoRet == [op |-> "none", arg |-> "", err |-> "nil", total |-> 0, out |-> <<>>,
          idx |-> <<>>, opened |-> FALSE, latest |-> "", build |-> NoBuild,
          local |-> "", mkdir |-> FALSE, tool |-> "no", again |-> FALSE,
          remote |-> NoFile,
          there |-> FALSE, file |-> NoFile, excl |-> <<>>, fail |-> 0]

Running == [NoRet EXCEPT !.op = "running"]

\* What the next operation remembers of the one before it: of an
\* AddBuild(""), whether it succeeded and the server's pointer it was given; of
\* a Load or a Delete, whether it succeeded; of the making of the registry, that it was
\* made; of any other, nothing.
Summary(r) ==
    [op |-> IF r.op \in {"Load", "Delete"} \/ (r.op = "AddBuild" /\ r.arg = "")
            THEN r.op
            ELSE IF r.op \in {"NewBranch", "NewBranch2"} THEN "NewBranch"
            ELSE "other",
     ok |-> IF r.op \in {"Load", "Delete"} \/ (r.op = "AddBuild" /\ r.arg = "")
            THEN r.err = "nil" ELSE TRUE,
     remote |-> IF r.op = "AddBuild" /\ r.arg = "" THEN r.remote ELSE NoFile]

Idle == \A q \in Callers : pc[q] = "idle"

SetReg(r) ==
    /\ builds' = r.builds
    /\ BuildsCount' = r.BuildsCount
    /\ UpdateDate' = r.UpdateDate
    /\ LatestBuild' = r.LatestBuild
    /\ BuildName' = r.BuildName
    /\ StoreName' = r.StoreName
    /\ StorePath' = r.StorePath
    /\ BuildPath' = r.BuildPath

\* AddBuild returns err from caller p's frame f.
Return(p, f, err) ==
    /\ pc' = [pc EXCEPT ![p] = "idle"]
    /\ frame' = [frame EXCEPT ![p] = NoFrame]
    /\ ret' = [NoRet EXCEPT !.op = "AddBuild", !.arg = f.buildVerion,
                            !.err = err, !.latest = f.latest,
                            !.local = f.local, !.build = f.build,
                            !.mkdir = f.mkdir, !.again = f.again,
                            !.tool = f.tool, !.remote = f.remote]

\* Caller p goes on to the step at label l with frame f.
Goto(p, l, f) ==
    /\ pc' = [pc EXCEPT ![p] = l]
    /\ frame' = [frame EXCEPT ![p] = f]
    /\ UNCHANGED ret

\* ------------------------------------------------------------------------
\* AddBuild, step by step
\* ------------------------------------------------------------------------

\* The deferred os.RemoveAll(b.symPath).
RemoveStaging == unzip' = FALSE

\* An AddBuild that does not compare the version it resolved with the local
\* pointer.
AddBuildBeginUncompared(p, buildVerion) ==
    /\ pc[p] = "idle"
    /\ BuildsCount < MaxBuilds
    /\ pre' = Reg
    /\ prev' = Summary(ret)
    /\ LET local == ReadPointer(latestTxt).str
           server == ReadPointer(remoteTxt)
           f == [NoFrame EXCEPT !.buildVerion = buildVerion, !.local = local,
                                !.remote = remoteTxt,
                                !.latest = IF buildVerion = "" THEN server.str
                                           ELSE buildVerion]
       IN  IF buildVerion = "" /\ ~server.ok
           THEN Return(p, f, "invalid build server latestbuild.txt file")
           ELSE /\ pc' = [pc EXCEPT ![p] = "getBuild"]
                /\ frame' = [frame EXCEPT ![p] = f]
                /\ ret' = Running
    /\ UNCHANGED <<registry, disk, stored>>

\* AddBuild(buildVerion), up to the comparison of the two pointers: read the
\* local pointer (its error is dropped), resolve the version, and return when
\* the server's pointer cannot be read or equals the local one.
AddBuildBegin(p, buildVerion) ==
    /\ pc[p] = "idle"
    /\ BuildsCount < MaxBuilds
    /\ pre' = Reg
    /\ prev' = Summary(ret)
    /\ LET local == ReadPointer(latestTxt).str
           server == ReadPointer(remoteTxt)
           f == [NoFrame EXCEPT !.buildVerion = buildVerion, !.local = local,
                                !.remote = remoteTxt,
                                !.latest = IF buildVerion = "" THEN server.str
                                           ELSE buildVerion]
       IN  IF buildVerion = "" /\ ~server.ok
           THEN Return(p, f, "invalid build server latestbuild.txt file")
           ELSE IF buildVerion = "" /\ f.latest = local
           THEN Return(p, f, "nil")
           ELSE /\ pc' = [pc EXCEPT ![p] = "getBuild"]
                /\ frame' = [frame EXCEPT ![p] = f]
                /\ ret' = Running
    /\ UNCHANGED <<registry, disk, stored>>

\* if b.getBuild(latest, "") != nil { return nil }
AddBuildExists(p) ==
    /\ pc[p] = "getBuild"
    /\ IF getBuild(builds, frame[p].latest, "") /= {}
       THEN Return(p, frame[p], "nil")
       ELSE Goto(p, "MkdirAll", frame[p])
    /\ UNCHANGED <<registry, disk, stored, pre, prev>>

\* os.MkdirAll(b.symPath, 666), and the defer that follows its success.
AddBuildMkdir(p) ==
    /\ pc[p] = "MkdirAll"
    /\ \/ /\ Return(p, frame[p], "MkdirAll")
          /\ UNCHANGED unzip
       \/ /\ unzip' = TRUE
          /\ Goto(p, "getSymbols", [frame[p] EXCEPT !.mkdir = TRUE])
    /\ UNCHANGED <<registry, remoteTxt, latestTxt, lastidTxt, branchBin, stored,
                   pre, prev>>

\* A getSymbols whose failure returns with no deferred removal.
AddBuildCopyKept(p) ==
    /\ pc[p] = "getSymbols"
    /\ \/ /\ Return(p, frame[p], "getSymbols")
          /\ UNCHANGED unzip
       \/ /\ unzip
          /\ Goto(p, "Unzip", frame[p])
          /\ UNCHANGED unzip
    /\ UNCHANGED <<registry, remoteTxt, latestTxt, lastidTxt, branchBin, stored,
                   pre, prev>>

\* getSymbols(latest): create debug.zip in the staging directory and copy the
\* server's archive into it.  Without the directory the file cannot be made.
AddBuildCopy(p) ==
    /\ pc[p] = "getSymbols"
    /\ \/ /\ Return(p, frame[p], "getSymbols")
          /\ RemoveStaging
       \/ /\ unzip
          /\ Goto(p, "Unzip", frame[p])
          /\ UNCHANGED unzip
    /\ UNCHANGED <<registry, remoteTxt, latestTxt, lastidTxt, branchBin, stored,
                   pre, prev>>

\* util.Unzip(symbolZip, b.symPath).
AddBuildUnzip(p) ==
    /\ pc[p] = "Unzip"
    /\ \/ /\ Return(p, frame[p], "Unzip")
          /\ RemoveStaging
       \/ /\ unzip
          /\ Goto(p, "addSymStore", frame[p])
          /\ UNCHANGED unzip
    /\ UNCHANGED <<registry, remoteTxt, latestTxt, lastidTxt, branchBin, stored,
                   pre, prev>>

\* addSymStore(latest, b.symPath): run the store tool and wait for it.  When it
\* fails, its error is returned.  When it succeeds it has left lastid.txt as it
\* was or written an identifier to it, and the Build is made of what
\* GetLatestID reads there and of the clock reading taken before the run.
AddBuildSymStore(p) ==
    /\ pc[p] = "addSymStore"
    /\ \/ /\ Return(p, [frame[p] EXCEPT !.tool = "failed"], "addSymStore")
          /\ RemoveStaging
          /\ UNCHANGED <<lastidTxt, stored>>
       \/ \E start \in Times, written \in {lastidTxt, File(NextID(lastidTxt))} :
             /\ lastidTxt' = written
             /\ stored' = stored \cup {frame[p].latest}
             /\ Goto(p, "updateLatestBuild",
                     [frame[p] EXCEPT
                        !.tool = "ok",
                        !.again = frame[p].latest \in stored,
                        !.build = MkBuild(GetLatestID(written), DateFmt(start),
                                          Name, frame[p].latest,
                                          CommentFmt(start))])
             /\ UNCHANGED unzip
    /\ UNCHANGED <<registry, remoteTxt, latestTxt, branchBin, pre, prev>>

\* An updateLatestBuild step whose failure returns after the build was added.
AddBuildPointerAdded(p) ==
    /\ pc[p] = "updateLatestBuild"
    /\ \/ /\ Return(p, frame[p], "updateLatestBuild")
          /\ latestTxt' \in {latestTxt, File("")}
          /\ SetReg(addBuild(Reg, frame[p].build))
          /\ RemoveStaging
       \/ /\ latestTxt' = File(frame[p].latest)
          /\ Goto(p, "addBuild", frame[p])
          /\ UNCHANGED <<registry, unzip>>
    /\ UNCHANGED <<remoteTxt, lastidTxt, branchBin, stored, pre, prev>>

\* updateLatestBuild(latest): open the local pointer file for writing, which
\* empties it, and write latest.  Either step may fail.
AddBuildPointer(p) ==
    /\ pc[p] = "updateLatestBuild"
    /\ \/ /\ Return(p, frame[p], "updateLatestBuild")
          /\ latestTxt' \in {latestTxt, File("")}
          /\ RemoveStaging
       \/ /\ latestTxt' = File(frame[p].latest)
          /\ Goto(p, "addBuild", frame[p])
          /\ UNCHANGED unzip
    /\ UNCHANGED <<registry, remoteTxt, lastidTxt, branchBin, stored, pre, prev>>

\* b.addBuild(build)
AddBuildCommit(p) ==
    /\ pc[p] = "addBuild"
    /\ SetReg(addBuild(Reg, frame[p].build))
    /\ Goto(p, "LatestBuild", frame[p])
    /\ UNCHANGED <<disk, stored, pre, prev>>

\* b.LatestBuild = latest; return nil, and the deferred removal runs.
AddBuildReturn(p) ==
    /\ pc[p] = "LatestBuild"
    /\ LatestBuild' = frame[p].latest
    /\ RemoveStaging
    /\ Return(p, frame[p], "nil")
    /\ UNCHANGED <<builds, BuildsCount, UpdateDate, BuildName, StoreName,
                   StorePath, BuildPath, remoteTxt, latestTxt, lastidTxt,
                   branchBin, stored, pre, prev>>

\* The steps of AddBuild after its first.
AddBuildStep(p) ==
    \/ AddBuildExists(p)
    \/ AddBuildMkdir(p)
    \/ AddBuildCopy(p)
    \/ AddBuildUnzip(p)
    \/ AddBuildSymStore(p)
    \/ AddBuildPointer(p)
    \/ AddBuildCommit(p)
    \/ AddBuildReturn(p)

\* ------------------------------------------------------------------------
\* The parsers, the snapshot, and the world around the registry
\* ------------------------------------------------------------------------

\* An operation that is one step begins: it remembers what it found.
Enter ==
    /\ Idle
    /\ pre' = Reg
    /\ prev' = Summary(ret)

\* ParseBuilds(handler) with server.txt as log and a handler failing at failAt.
ParseBuilds(log, failAt) ==
    /\ Enter
    /\ \E order \in RangeOrders(builds) :
          LET res == ParseBuildsOn(Reg, log, order, failAt)
          IN  /\ SetReg(res.reg)
              /\ ret' = [NoRet EXCEPT !.op = "ParseBuilds", !.err = res.err,
                                      !.total = res.total, !.out = res.out,
                                      !.idx = res.idx, !.opened = res.opened,
                                      !.there = log.exists,
                                      !.file = IF res.opened THEN log ELSE NoFile,
                                      !.fail = IF res.opened THEN failAt ELSE 0]
    /\ UNCHANGED <<disk, pc, frame, stored>>

\* ParseSymbols(buildID, handler) with the index file and the exclude list as
\* given and a handler failing at failAt.
ParseSymbols(buildID, index, SymExcludeList, failAt) ==
    /\ Enter
    /\ LET res == ParseSymbolsOn(Reg, buildID, index, SymExcludeList, failAt)
       IN  ret' = [NoRet EXCEPT !.op = "ParseSymbols", !.arg = buildID,
                                !.err = res.err, !.total = res.total,
                                !.out = res.out, !.idx = res.idx,
                                !.opened = res.opened, !.there = index.exists,
                                !.file = IF res.opened THEN index ELSE NoFile,
                                !.excl = IF res.opened THEN SymExcludeList
                                         ELSE <<>>,
                                !.fail = IF res.opened THEN failAt ELSE 0]
    /\ UNCHANGED <<registry, disk, pc, frame, stored>>

\* The Branch record as the snapshot holds it.
BranchRecord(r) == [f \in DOMAIN ZeroBranch |-> r[f]]

\* gob's Decode of an encoded Branch into the registry's: the encoder leaves
\* out every field that holds its zero value, and the decoder leaves the
\* fields it is not sent as they are.
Decode(r, sent) ==
    [f \in DOMAIN r |->
        IF f \in DOMAIN ZeroBranch /\ sent[f] /= ZeroBranch[f] THEN sent[f]
        ELSE r[f]]

\* Persist(): write the Branch to branch.bin, unless the file cannot be opened.
Persist ==
    /\ Enter
    /\ \/ /\ branchBin' = File(BranchRecord(Reg))
          /\ ret' = [NoRet EXCEPT !.op = "Persist"]
       \/ /\ UNCHANGED branchBin
          /\ ret' = [NoRet EXCEPT !.op = "Persist", !.err = "open"]
    /\ UNCHANGED <<registry, remoteTxt, latestTxt, lastidTxt, unzip, pc, frame,
                   stored>>

\* A Delete that also empties the registry.
DeleteEmptied ==
    /\ Enter
    /\ branchBin' = NoFile
    /\ ret' = [NoRet EXCEPT !.op = "Delete",
                            !.err = IF branchBin.exists THEN "nil" ELSE "remove"]
    /\ SetReg([Reg EXCEPT !.builds = EmptyMap, !.BuildsCount = 0,
                          !.LatestBuild = ""])
    /\ UNCHANGED <<remoteTxt, latestTxt, lastidTxt, unzip, pc, frame, stored>>

\* Delete(): os.Remove of branch.bin.
Delete ==
    /\ Enter
    /\ branchBin' = NoFile
    /\ ret' = [NoRet EXCEPT !.op = "Delete",
                            !.err = IF branchBin.exists THEN "nil" ELSE "remove"]
    /\ UNCHANGED <<registry, remoteTxt, latestTxt, lastidTxt, unzip, pc, frame,
                   stored>>

\* Load(): decode branch.bin into b.Branch, unless the file cannot be opened.
Load ==
    /\ Enter
    /\ IF branchBin.exists
       THEN /\ SetReg(Decode(Reg, branchBin.data))
            /\ ret' = [NoRet EXCEPT !.op = "Load"]
       ELSE /\ UNCHANGED registry
            /\ ret' = [NoRet EXCEPT !.op = "Load", !.err = "open"]
    /\ UNCHANGED <<disk, pc, frame, stored>>

\* NewBranch(buildName, storeName): a new registry over the same store, with
\* empty maps and a Branch that holds the names and the time of its making.
NewBranch ==
    /\ Idle
    /\ ret.op /= "NewBranch"
    /\ \E buildName \in BuildNames : SetReg(NewBranchReg(buildName, Name))
    /\ stored' = {}
    /\ ret' = [NoRet EXCEPT !.op = "NewBranch"]
    /\ pre' = Reg
    /\ prev' = Summary(NoRet)
    /\ UNCHANGED <<disk, pc, frame>>

\* NewBranch2(branch): a new registry over the same store, made of the Branch
\* given.
NewBranch2(branch) ==
    /\ Idle
    /\ SetReg(NewBranch2Reg(branch))
    /\ stored' = {}
    /\ ret' = [NoRet EXCEPT !.op = "NewBranch2"]
    /\ pre' = Reg
    /\ prev' = Summary(NoRet)
    /\ UNCHANGED <<disk, pc, frame>>

\* The build server publishes a build: its latestbuild.txt changes.
RemotePublish(f) ==
    /\ Idle
    /\ f /= remoteTxt
    /\ remoteTxt' = f
    /\ UNCHANGED <<registry, latestTxt, lastidTxt, branchBin, unzip, pc, frame,
                   ret, pre, prev, stored>>

\* ------------------------------------------------------------------------
\* The sync runs: one caller, one operation at a time
\* ------------------------------------------------------------------------

Init ==
    /\ \E buildName \in BuildNames :
          LET r == NewBranchReg(buildName, Name)
          IN  /\ builds = r.builds
              /\ BuildsCount = r.BuildsCount
              /\ UpdateDate = r.UpdateDate
              /\ LatestBuild = r.LatestBuild
              /\ BuildName = r.BuildName
              /\ StoreName = r.StoreName
              /\ StorePath = r.StorePath
              /\ BuildPath = r.BuildPath
    /\ remoteTxt \in RemoteFiles
    /\ latestTxt = NoFile
    /\ lastidTxt = NoFile
    /\ branchBin = NoFile
    /\ unzip = FALSE
    /\ pc = [q \in Callers |-> "idle"]
    /\ frame = [q \in Callers |-> NoFrame]
    /\ ret = NoRet
    /\ pre = Reg
    /\ prev = Summary(NoRet)
    /\ stored = {}

Next ==
    \/ \E v \in Versions : Idle /\ AddBuildBegin(Main, v)
    \/ AddBuildStep(Main)
    \/ NewBranch
    \/ \E f \in RemoteFiles : RemotePublish(f)

Spec == Init /\ [][Next]_vars

\* ------------------------------------------------------------------------
\* The history parser over the logs of ParseLogs
\* ------------------------------------------------------------------------

InitParse == Init /\ remoteTxt = NoFile

NextBuilds ==
    \/ \E log \in ParseLogs, failAt \in 0..MaxFail : ParseBuilds(log, failAt)
    \/ NewBranch

SpecBuilds == InitParse /\ [][NextBuilds]_vars

\* ------------------------------------------------------------------------
\* The symbol parser over the index files of ParseIndexes
\* ------------------------------------------------------------------------

NextSymbols ==
    \/ ParseBuilds(FilledLog, 0)
    \/ \E index \in ParseIndexes, excl \in ParseExcludes,
          failAt \in 0..MaxFail : ParseSymbols("1", index, excl, failAt)
    \/ NewBranch

SpecSymbols == InitParse /\ [][NextSymbols]_vars

\* ------------------------------------------------------------------------
\* The lookup of a build by its identifier, on registries filled from the
\* log, by a sync run, or not at all, and after the snapshot was loaded
\* ------------------------------------------------------------------------

NextLookup ==
    \/ ParseBuilds(FilledLog, 0)
    \/ Idle /\ AddBuildBegin(Main, "")
    \/ AddBuildStep(Main)
    \/ \E id \in IDs, index \in SyncIndexes, excl \in SyncExcludes :
          ParseSymbols(id, index, excl, 0)
    \/ Persist
    \/ Load
    \/ NewBranch

InitLookup == Init /\ remoteTxt = File("2")

SpecLookup == InitLookup /\ [][NextLookup]_vars

\* ------------------------------------------------------------------------
\* The snapshot: registries made of any Branch, saved and loaded
\* ------------------------------------------------------------------------

NextSnapshot ==
    \/ \E branch \in BranchInputs : NewBranch2(branch)
    \/ NewBranch
    \/ Persist
    \/ Load

SpecSnapshot == InitParse /\ [][NextSnapshot]_vars

\* ------------------------------------------------------------------------
\* The snapshot deleted, among sync runs, lookups, saves and loads
\* ------------------------------------------------------------------------

NextDelete ==
    \/ NextLookup
    \/ Delete

SpecDelete == InitLookup /\ [][NextDelete]_vars

\* ------------------------------------------------------------------------
\* The count of builds over sync runs, parses with handlers that fail or
\* not, lookups, saves and loads
\* ------------------------------------------------------------------------

NextCount ==
    \/ \E log \in CountLogs, failAt \in 0..MaxFail : ParseBuilds(log, failAt)
    \/ Idle /\ AddBuildBegin(Main, "")
    \/ AddBuildStep(Main)
    \/ \E index \in SyncIndexes, excl \in SyncExcludes :
          ParseSymbols("1", index, excl, 0)
    \/ Persist
    \/ Load
    \/ NewBranch

SpecCount == InitLookup /\ [][NextCount]_vars

\* ------------------------------------------------------------------------
\* The symbol parser over the index files of ArchIndexes
\* ------------------------------------------------------------------------

NextArch ==
    \/ ParseBuilds(FilledLog, 0)
    \/ \E index \in ArchIndexes, excl \in SyncExcludes, failAt \in 0..MaxFail :
          ParseSymbols("1", index, excl, failAt)
    \/ NewBranch

SpecArch == InitParse /\ [][NextArch]_vars

\* ------------------------------------------------------------------------
\* Two callers in AddBuild at once: AddBuild takes the lock only inside
\* getBuild and addBuild, so its steps interleave
\* ------------------------------------------------------------------------

NextStaging ==
    \E p \in Callers :
        \/ AddBuildBegin(p, "")
        \/ AddBuildStep(p)

SpecStaging == InitLookup /\ [][NextStaging]_vars

\* ------------------------------------------------------------------------
\* ParseBuilds, step by step, beside the AddBuild of another caller
\* ------------------------------------------------------------------------

Other == "other"

\* The locals of a caller inside the replay of ParseBuilds: the keys its range
\* has visited, what the handler was given, the count, and the map as the
\* range found it.
ReplayFrame(m) == [visited |-> {}, out |-> <<>>, total |-> 0, found |-> m]

\* ParseBuilds of caller p returns.
ParseBuildsReturn(p, total, out, err, opened) ==
    /\ pc' = [pc EXCEPT ![p] = "idle"]
    /\ frame' = [frame EXCEPT ![p] = NoFrame]
    /\ ret' = [NoRet EXCEPT !.op = "ParseBuilds", !.err = err,
                            !.total = total, !.out = out,
                            !.opened = opened, !.there = opened,
                            !.file = IF opened THEN FilledLog ELSE NoFile]

\* if len(b.builds) != 0: the length is read with no lock held.
ParseBuildsBegin(p) ==
    /\ pc[p] = "idle"
    /\ pre' = Reg
    /\ prev' = Summary(ret)
    /\ ret' = Running
    /\ IF Cardinality(DOMAIN builds) /= 0
       THEN /\ pc' = [pc EXCEPT ![p] = "range"]
            /\ frame' = [frame EXCEPT ![p] = ReplayFrame(builds)]
       ELSE /\ pc' = [pc EXCEPT ![p] = "os.Open"]
            /\ UNCHANGED frame
    /\ UNCHANGED <<registry, disk, stored>>

\* for _, v := range b.builds, one iteration a step, with no lock held: the
\* range gives the handler a build it has not visited, or ends once it has
\* visited every key it found at its start (a key added since may be left
\* out).  When the map was written since the range began the runtime may stop
\* the program: "fatal error: concurrent map iteration and map write".
ParseBuildsRange(p) ==
    /\ pc[p] = "range"
    /\ LET f == frame[p]
       IN  \/ \E k \in DOMAIN builds \ f.visited :
                 Goto(p, "range", [f EXCEPT !.visited = @ \cup {k},
                                            !.out = Append(@, builds[k]),
                                            !.total = @ + 1])
           \/ /\ DOMAIN f.found \subseteq f.visited
              /\ ParseBuildsReturn(p, f.total, f.out, "nil", FALSE)
           \/ /\ builds /= f.found
              /\ pc' = [q \in Callers |-> "fatal"]
              /\ ret' = [NoRet EXCEPT !.op = "ParseBuilds", !.err = "fatal",
                                      !.total = f.total, !.out = f.out]
              /\ UNCHANGED frame
    /\ UNCHANGED <<registry, disk, stored, pre, prev>>

\* The pass over server.txt of a ParseBuilds that found the map empty: every
\* build goes through addBuild, which takes the lock.
ParseBuildsFile(p) ==
    /\ pc[p] = "os.Open"
    /\ LET res == BuildsLoop(LinesOf[FilledLog.data], 1,
                             LoopStart([Reg EXCEPT !.BuildsCount = 0]), 0)
       IN  /\ SetReg(res.reg)
           /\ ParseBuildsReturn(p, res.total, res.out, res.err, TRUE)
    /\ UNCHANGED <<disk, stored, pre, prev>>

NextRace ==
    \/ AddBuildBegin(Main, "")
    \/ AddBuildStep(Main)
    \/ ParseBuildsBegin(Other)
    \/ ParseBuildsRange(Other)
    \/ ParseBuildsFile(Other)

SpecRace == InitLookup /\ [][NextRace]_vars

\* ------------------------------------------------------------------------
\* Properties of AddBuild
\* ------------------------------------------------------------------------

StageErrors == {"MkdirAll", "getSymbols", "Unzip", "addSymStore",
                "updateLatestBuild"}

\* C1: when a stage of AddBuild fails (the creation of the staging directory,
\* the copy, the extraction, the store tool, the update of the local pointer),
\* the registry is as it was when the call began: the map, BuildsCount,
\* UpdateDate and LatestBuild.
C1_FailedStageLeavesRegistry ==
    (ret.op = "AddBuild" /\ ret.err \in StageErrors) => Reg = pre

\* A call failed at the update of the local pointer, after the store tool had
\* succeeded, on a registry that held a build.
C1_Witness ==
    /\ ret.op = "AddBuild"
    /\ ret.err = "updateLatestBuild"
    /\ ret.tool = "ok"
    /\ pre.BuildsCount = 1

\* C2: the store tool never runs to success for a version it has already
\* stored on this instance.
C2_StoredAtMostOnce == \A p \in Callers : ~frame[p].again

\* The second of two AddBuild("") calls in a row that were given the same
\* pointer of the server.
C3_Second ==
    /\ ret.op = "AddBuild"
    /\ ret.arg = ""
    /\ prev.op = "AddBuild"
    /\ prev.remote = ret.remote

\* A returned AddBuild that did nothing: no staging directory, no store tool,
\* the registry as it was.
C3_Noop == ret.err = "nil" /\ ~ret.mkdir /\ ret.tool = "no" /\ Reg = pre

\* C3 as stated: of two AddBuild("") calls in a row with the server's pointer
\* unchanged, both succeed and the second does nothing; and an AddBuild("")
\* that finds the server's pointer equal to the local one does nothing.
C3_TwiceSucceeds ==
    /\ C3_Second => (prev.ok /\ C3_Noop)
    /\ (ret.op = "AddBuild" /\ ret.arg = "" /\ ret.remote.exists
          /\ ReadPointer(ret.remote).str = ret.local) => C3_Noop

\* C3, amended: when the first of two AddBuild("") calls in a row with the
\* server's pointer unchanged succeeded, the second succeeds and does nothing;
\* and an AddBuild("") that reads the server's pointer and finds it equal to
\* the local one succeeds and does nothing.
C3_TwiceAfterSuccess ==
    /\ (C3_Second /\ prev.ok) => C3_Noop
    /\ (ret.op = "AddBuild" /\ ret.arg = "" /\ ret.remote.exists
          /\ ReadPointer(ret.remote).str = ret.local) => C3_Noop

\* The second call returned after a first that succeeded, for a version the
\* store tool had stored and the registry holds.
C3_Witness ==
    /\ C3_Second
    /\ prev.ok
    /\ ret.latest \in stored
    /\ getBuild(builds, ret.latest, "") /= {}
    /\ ret.local = ret.latest

\* C4: when AddBuild has returned, with success or with a failure, the staging
\* directory <StorePath>/000Unzip is not on disk.
C4_StagingRemoved == ret.op = "AddBuild" => ~unzip

\* A call that created the staging directory and failed at the copy.
C4_Witness == ret.op = "AddBuild" /\ ret.mkdir /\ ret.err = "getSymbols"

\* C5: after an AddBuild that ran the store tool and returned success, the
\* registry holds a Build whose Version is the resolved version and whose ID
\* is what GetLatestID reads, BuildsCount is one more than before the call,
\* and LatestBuild and the local pointer file hold the resolved version.
C5_Committed ==
    (ret.op = "AddBuild" /\ ret.err = "nil" /\ ret.tool = "ok") =>
        /\ \E k \in DOMAIN builds :
              /\ builds[k].Version = ret.latest
              /\ builds[k].ID = GetLatestID(lastidTxt)
              /\ k = builds[k].ID
        /\ BuildsCount = pre.BuildsCount + 1
        /\ LatestBuild = ret.latest
        /\ latestTxt = File(ret.latest)

\* A call committed a build to a registry that held one.
C5_Witness ==
    /\ ret.op = "AddBuild"
    /\ ret.err = "nil"
    /\ ret.tool = "ok"
    /\ pre.BuildsCount = 1

\* ------------------------------------------------------------------------
\* Properties of ParseBuilds
\* ------------------------------------------------------------------------

\* The lines of a text: the pieces between its line feeds, the last one too
\* when the text does not end with a line feed.
TextLines(text) ==
    LET parts == Split(text, "\n")
    IN  IF parts[Len(parts)] = "" THEN SubSeq(parts, 1, Len(parts) - 1)
        ELSE parts

FieldsOf(line) == Split(Trim(line, "\r\n"), ",")
HasEightFields(line) == Len(FieldsOf(line)) >= 8
Unquote(s) == Trim(s, "\"")

\* C6: on an empty registry, with a handler that never fails, ParseBuilds makes
\* one Build of every line of server.txt that has at least eight fields, in
\* the order of the file; the count it returns and BuildsCount are the number
\* of those lines; and ID, Branch, Version and Comment are the fields 0, 5, 6
\* and 7 of the line, the quotes stripped from the last three.
C6_OneBuildPerLine ==
    (ret.op = "ParseBuilds" /\ ret.opened /\ ret.err = "nil") =>
        LET good == SelectSeq(TextLines(ret.file.data), HasEightFields)
        IN  /\ ret.total = Len(good)
            /\ BuildsCount = Len(good)
            /\ Len(ret.out) = Len(good)
            /\ \A j \in 1..Len(good) :
                  LET ss == FieldsOf(good[j])
                  IN  /\ ret.out[j].ID = ss[1]
                      /\ ret.out[j].Branch = Unquote(ss[6])
                      /\ ret.out[j].Version = Unquote(ss[7])
                      /\ ret.out[j].Comment = Unquote(ss[8])

\* ------------------------------------------------------------------------
\* Properties of ParseSymbols
\* ------------------------------------------------------------------------

\* The strings ParseSymbols read in the call that returned, and what the k-th
\* holds.
SymLines == LinesOf[ret.file.data]
SymEntry(k) == IndexEntryOf[SymLines[k]]

\* The k-th line names a symbol that the exclude list of the call lets pass.
Candidate(k) == SymEntry(k).ok /\ ~skipFn(SymEntry(k).Name, ret.excl)

\* The k-th line is the first of the call that names its hash.
FirstOfHash(k) ==
    /\ Candidate(k)
    /\ \A m \in 1..(k - 1) : Candidate(m) => SymEntry(m).Hash /= SymEntry(k).Hash

\* C7: within one call ParseSymbols gives the handler no two symbols with the
\* same hash; the symbol it gives for a hash is the one of the first line
\* that names the hash; and every such first line the call came to is given,
\* whatever earlier calls have seen.
C7_FirstOfEachHash ==
    (ret.op = "ParseSymbols" /\ ret.opened) =>
        /\ \A i, j \in DOMAIN ret.out :
              i /= j => ret.out[i].Hash /= ret.out[j].Hash
        /\ \A j \in DOMAIN ret.out :
              /\ ret.idx[j] \in DOMAIN SymLines
              /\ FirstOfHash(ret.idx[j])
              /\ ret.out[j].Hash = SymEntry(ret.idx[j]).Hash
              /\ ret.out[j].Name = SymEntry(ret.idx[j]).Name
        /\ \A k \in DOMAIN SymLines :
              (FirstOfHash(k) /\ (ret.err = "nil" \/ k <= ret.idx[Len(ret.idx)]))
                 => \E j \in DOMAIN ret.idx : ret.idx[j] = k

\* A call that returned success read two lines that name the same hash, none
\* of them excluded, and gave the handler one symbol.
C7_Witness ==
    /\ ret.op = "ParseSymbols"
    /\ ret.opened
    /\ ret.err = "nil"
    /\ \E k, m \in DOMAIN SymLines :
          /\ m < k
          /\ Candidate(m)
          /\ Candidate(k)
          /\ SymEntry(m).Hash = SymEntry(k).Hash
    /\ Len(ret.out) = 1

\* C8: ParseSymbols gives the handler no symbol whose name equals an entry of
\* the exclude list when letter case is ignored, whatever the case of the
\* name and of the entry.
C8_ExcludedNeverDelivered ==
    ret.op = "ParseSymbols" =>
        \A j \in DOMAIN ret.out, k \in DOMAIN ret.excl :
            ToLower(ret.out[j].Name) /= ToLower(ret.excl[k])

\* The hashes of the symbols a call may give the handler.
CandidateHashes == {SymEntry(k).Hash : k \in {m \in DOMAIN SymLines : Candidate(m)}}

\* C9 as stated: when the handler fails on the k-th symbol it is given, the
\* count ParseSymbols returns is k, the failing symbol counted.
C9_FailingSymbolCounted ==
    (ret.op = "ParseSymbols" /\ ret.err = "handler") => ret.total = ret.fail

\* C9, amended: ParseSymbols returns the number of symbols its handler
\* accepted.  With a handler that never fails that is the number of distinct
\* hashes among the lines the exclude list lets pass.  When the handler fails
\* on the k-th symbol it is given, the handler is not called again, its
\* failure is returned, and the count is k - 1.
C9_AcceptedSymbolsCounted ==
    (ret.op = "ParseSymbols" /\ ret.opened) =>
        /\ ret.err \in {"nil", "handler"}
        /\ ret.err = "nil" =>
              /\ ret.total = Len(ret.out)
              /\ ret.total = Cardinality(CandidateHashes)
              /\ ret.fail = 0 \/ ret.fail > ret.total
        /\ ret.err = "handler" =>
              /\ Len(ret.out) = ret.fail
              /\ ret.total = ret.fail - 1
              /\ ret.fail <= Cardinality(CandidateHashes)

\* The handler failed on the second symbol it was given.
C9_Witness ==
    /\ ret.op = "ParseSymbols"
    /\ ret.err = "handler"
    /\ ret.fail = 2
    /\ Len(ret.out) = 2

\* C10: ParseSymbols called with an identifier the registry does not hold
\* returns the build-not-exist error and the count 0, opens no file and calls
\* the handler for no symbol.
C10_UnknownBuild ==
    (ret.op = "ParseSymbols" /\ ret.arg \notin DOMAIN builds) =>
        /\ ret.err = "ErrBuildNotExist"
        /\ ret.total = 0
        /\ ~ret.opened
        /\ ret.out = <<>>

\* The call came right after a Load that succeeded, on a registry whose map
\* is empty, for an identifier whose index file is on disk.
C10_Witness ==
    /\ ret.op = "ParseSymbols"
    /\ ret.err = "ErrBuildNotExist"
    /\ ret.arg /= ""
    /\ ret.there
    /\ prev.op = "Load"
    /\ prev.ok
    /\ builds = EmptyMap
    /\ BuildsCount > 0

\* ------------------------------------------------------------------------
\* Properties of the snapshot
\* ------------------------------------------------------------------------

\* C11: after Persist, a Load on a registry just made over the same store
\* leaves it with a Branch record equal in every field to the one saved,
\* whatever the new registry held, and also in the fields that were saved
\* empty or zero.
C11_RoundTrip ==
    (ret.op = "Load" /\ ret.err = "nil" /\ prev.op = "NewBranch") =>
        BranchRecord(Reg) = branchBin.data

\* C20: Delete removes branch.bin and leaves the Branch record, the map of
\* builds, the pointer files and what the store holds as they were; and a
\* Load that finds no branch.bin fails and leaves the Branch record as it was.
C20_DeleteOnlySnapshot ==
    [][/\ ret'.op = "Delete" =>
             /\ branchBin' = NoFile
             /\ UNCHANGED <<registry, remoteTxt, latestTxt, lastidTxt, unzip,
                            stored>>
       /\ (ret'.op = "Load" /\ ~branchBin.exists) =>
             /\ ret'.err /= "nil"
             /\ UNCHANGED <<registry, disk>>]_vars

\* A Load failed right after a Delete that had removed a saved snapshot, on a
\* registry that holds a build and whose store holds a local pointer.
C20_Witness ==
    /\ ret.op = "Load"
    /\ ret.err /= "nil"
    /\ prev.op = "Delete"
    /\ prev.ok
    /\ BuildsCount > 0
    /\ builds /= EmptyMap
    /\ latestTxt.exists

\* ------------------------------------------------------------------------
\* Properties of the count and of the replay
\* ------------------------------------------------------------------------

\* A step of an operation on the registry, not the making of a new one.
OnSameRegistry == ret'.op \notin {"NewBranch", "NewBranch2"}

\* C12 as stated: over AddBuild, ParseBuilds, ParseSymbols, Persist and Load,
\* BuildsCount never decreases from one state to the next.
C12_CountNeverDecreases ==
    [][OnSameRegistry => BuildsCount' >= BuildsCount]_vars

\* C12, amended: BuildsCount never decreases over AddBuild, ParseSymbols,
\* Persist, and a ParseBuilds that replays the map or cannot open server.txt.
\* (A ParseBuilds that reads server.txt counts anew from zero, and a Load
\* takes the count that was saved.)
C12_CountKeptByOthers ==
    [][(\/ ret'.op \in {"running", "AddBuild", "ParseSymbols", "Persist"}
        \/ (ret'.op = "ParseBuilds" /\ ~ret'.opened))
          => BuildsCount' >= BuildsCount]_vars

\* A replay whose handler failed on its first build left a count of two.
C12_Witness ==
    /\ ret.op = "ParseBuilds"
    /\ ~ret.opened
    /\ ret.err = "handler"
    /\ ret.total = 0
    /\ BuildsCount = 2

\* The builds of a map.
BuildsOf(m) == {m[k] : k \in DOMAIN m}

\* A ParseBuilds that found builds in the registry: it did not open
\* server.txt, left the registry as it was, and gave the handler builds of the
\* map only, none of them twice.
C16_Replayed ==
    /\ ~ret.opened
    /\ Reg = pre
    /\ \A j \in DOMAIN ret.out : ret.out[j] \in BuildsOf(builds)
    /\ \A i, j \in DOMAIN ret.out : i /= j => ret.out[i] /= ret.out[j]

\* C16 as stated: when the registry holds a build, ParseBuilds does not open
\* server.txt, leaves the map, BuildsCount and LatestBuild as they were, calls
\* the handler once for each build of the map and for no other, and on
\* success returns the number of builds of the map.
C16_ReplayOfEveryBuild ==
    (ret.op = "ParseBuilds" /\ pre.builds /= EmptyMap) =>
        /\ C16_Replayed
        /\ {ret.out[j] : j \in DOMAIN ret.out} = BuildsOf(builds)
        /\ ret.err = "nil" => ret.total = Cardinality(DOMAIN builds)

\* C16, amended: when the registry holds a build, ParseBuilds does not open
\* server.txt, leaves the map, BuildsCount and LatestBuild as they were, and
\* calls the handler at most once for each build of the map and for no other;
\* when no call of the handler fails, it is called once for each build and
\* the number of builds of the map is returned; when one fails, the replay
\* stops there and the failure is returned.
C16_ReplayUntilFailure ==
    (ret.op = "ParseBuilds" /\ pre.builds /= EmptyMap) =>
        /\ C16_Replayed
        /\ ret.err \in {"nil", "handler"}
        /\ ret.err = "nil" =>
              /\ {ret.out[j] : j \in DOMAIN ret.out} = BuildsOf(builds)
              /\ ret.total = Cardinality(DOMAIN builds)
        /\ ret.err = "handler" => ret.total = Len(ret.out) - 1

\* A replay of a map of two builds, one of them committed by AddBuild, with
\* server.txt on disk, succeeded.
C16_Witness ==
    /\ ret.op = "ParseBuilds"
    /\ Cardinality(DOMAIN pre.builds) = 2
    /\ stored /= {}
    /\ ret.there
    /\ ret.err = "nil"
    /\ ret.total = 2

\* What ParseBuilds does when it cannot open server.txt.
C17_OpenFailed ==
    /\ ret.err = "open"
    /\ ret.total = 0
    /\ ret.out = <<>>
    /\ Reg = pre

\* C17 as stated: whatever the registry holds, a ParseBuilds whose server.txt
\* cannot be opened returns the error of the open and the count 0, has not
\* called the handler, and leaves the map, BuildsCount and LatestBuild as
\* they were.
C17_OpenFailureAlways ==
    (ret.op = "ParseBuilds" /\ ~ret.there) => C17_OpenFailed

\* C17, amended: the same of a registry that holds no build.  (A registry
\* that holds builds replays them and never opens server.txt.)
C17_OpenFailureOnEmpty ==
    (ret.op = "ParseBuilds" /\ ~ret.there /\ pre.builds = EmptyMap) =>
        C17_OpenFailed

\* The open failed on a registry whose count a Load had set and whose map
\* is empty.
C17_Witness ==
    /\ ret.op = "ParseBuilds"
    /\ ~ret.there
    /\ ret.err = "open"
    /\ pre.builds = EmptyMap
    /\ pre.BuildsCount > 0

\* C18: when the handler fails while ParseBuilds reads server.txt, no later
\* line is parsed or added and the handler is not called again, its failure
\* is returned, the count returned is the number of builds the call added,
\* which is BuildsCount after it, and LatestBuild is the version of the last
\* build added.
C18_StopsAtFailure ==
    (ret.op = "ParseBuilds" /\ ret.opened /\ ret.err = "handler") =>
        LET good == SelectSeq(TextLines(ret.file.data), HasEightFields)
            k == ret.fail
        IN  /\ k >= 1
            /\ Len(ret.out) = k
            /\ ret.total = k
            /\ BuildsCount = k
            /\ k <= Len(good)
            /\ \A j \in 1..k : ret.out[j].ID = FieldsOf(good[j])[1]
            /\ LatestBuild = ret.out[k].Version
            /\ DOMAIN builds = {ret.out[j].ID : j \in 1..k}
            /\ \A j \in 1..k :
                  builds[ret.out[j].ID] \in {ret.out[m] : m \in 1..k}

\* The handler failed on the first of two builds the log holds.
C18_Witness ==
    /\ ret.op = "ParseBuilds"
    /\ ret.opened
    /\ ret.err = "handler"
    /\ ret.fail = 1
    /\ Len(SelectSeq(TextLines(ret.file.data), HasEightFields)) = 2
    /\ builds /= EmptyMap

\* C15: the map of builds only grows: once a build is stored under an
\* identifier, no later AddBuild or ParseBuilds replaces, changes or removes
\* what is stored under it, also when the store tool did not advance
\* lastid.txt or GetLatestID returns the empty string.
C15_AppendOnly ==
    [][OnSameRegistry =>
          \A i \in DOMAIN builds :
              i \in DOMAIN builds' /\ builds'[i] = builds[i]]_vars

\* ------------------------------------------------------------------------
\* Properties of the architecture of a symbol
\* ------------------------------------------------------------------------

\* The token occurs in the path, whatever the case of the path's letters.
HasToken(path, token) ==
    \E i \in 1..Len(path) :
        /\ i + Len(token) - 1 <= Len(path)
        /\ ToLower(SubSeq(path, i, i + Len(token) - 1)) = token

\* The path written on the line the j-th symbol of the call was made of.
WrittenPath(j) == Unquote(FieldsOf(SymLines[ret.idx[j]])[2])

\* The path is what follows the first staging marker of the written path, or
\* the written path when it holds no marker.
StoreRelative(path, written) ==
    LET marks == {i \in 1..Len(written) :
                     /\ i + Len(unzipDir) - 1 <= Len(written)
                     /\ SubSeq(written, i, i + Len(unzipDir) - 1) = unzipDir}
    IN  IF marks = {} THEN path = written
        ELSE \E i \in marks :
                /\ \A k \in marks : i <= k
                /\ path = SubSeq(written, i + Len(unzipDir), Len(written))

\* C14: the architecture of a symbol is x64 exactly when its path in the
\* store, the written path after the staging marker, holds x64 or amd64 in
\* letters of any case, and x86 otherwise.
C14_ArchOfPath ==
    (ret.op = "ParseSymbols" /\ ret.opened) =>
        \A j \in DOMAIN ret.out :
            /\ StoreRelative(ret.out[j].Path, WrittenPath(j))
            /\ ret.out[j].Arch =
                  IF HasToken(ret.out[j].Path, "x64")
                     \/ HasToken(ret.out[j].Path, "amd64")
                  THEN ArchX64 ELSE ArchX86

\* A call gave the handler a symbol that is x64 by a token in capitals, and
\* one that is x86 although x64 stands before the staging marker.
C14_Witness ==
    /\ ret.op = "ParseSymbols"
    /\ ret.opened
    /\ \E i, j \in DOMAIN ret.out :
          /\ ret.out[i].Arch = ArchX64
          /\ Index(ret.out[i].Path, "x64") = 0
          /\ Index(ret.out[i].Path, "amd64") = 0
          /\ ret.out[j].Arch = ArchX86
          /\ Index(WrittenPath(j), "x64") /= 0

\* ------------------------------------------------------------------------
\* Properties of callers that overlap
\* ------------------------------------------------------------------------

\* Caller p is between the making of its staging directory and the deferred
\* removal of it.
Staged(p) ==
    pc[p] \in {"getSymbols", "Unzip", "addSymStore", "updateLatestBuild",
               "addBuild", "LatestBuild"}

\* C19: while a call of AddBuild is between the making of its staging
\* directory and its deferred removal, the directory is on disk and no other
\* call of AddBuild is using it: no other call makes, fills or removes it.
C19_StagingNotShared ==
    \A p \in Callers :
        Staged(p) => (unzip /\ \A q \in Callers \ {p} : ~Staged(q))

\* C13: every read and every write of the builds map is made with the lock
\* held, so no write of the map happens while another caller is in the middle
\* of a read of it: while a caller ranges over the map, the map stays as it
\* is.
C13_NoWriteDuringRead ==
    [][(\E q \in Callers : pc[q] = "range") => builds' = builds]_vars

====
